---- MODULE Spec2Model ----
(***************************************************************************)
(* Model of viur/datastore/utils.py: the transactional get-or-create,      *)
(* the transaction success marker, the data access log scopes, the key     *)
(* helper and fixUnindexableProperties.  The datastore client (Get, Put,   *)
(* RunInTransaction, the context variables) lives in                       *)
(* viur.datastore.transport / viur.datastore.types and is modelled from    *)
(* the specification's description of it.                                  *)
(***************************************************************************)
EXTENDS Integers, Sequences, FiniteSets, TLC

VARIABLES
    store,      \* the committed datastore: a set of entities, one per key
    slot,       \* currentTransaction of each execution context: <<>> or <<handle>>
    pc,         \* where each execution context stands
    ctx,        \* the locals of each context's running call
    ops,        \* number of calls the contexts may still make (bounds the model)
    hist,       \* history: what was committed, created, returned
    log,        \* one context's access log: the slot, the set objects, the caller
    kh,         \* one call of keyHelper: its arguments and its outcome
    fx          \* one entity that is changed and passed to fixUnindexableProperties

\* ---------------------------------------------------------------- bounds
NumCallers == 3
NumTxnProcs == 2
MaxTxnCalls == 4
MaxRetries == 1
MaxLogCalls == 4
MaxLogReads == 2
MaxDepth == 1
MaxChanges == 2

Procs == 1..NumCallers
TxnProcs == 1..NumTxnProcs

\* ---------------------------------------------------------------- values
\* Key(kind, id): the one data key every caller races on, and marker keys.
DataKey == [kind |-> "data", id |-> <<0, 0>>]
MarkerKey(marker) == [kind |-> "viur-transactionmarker", id |-> marker]

\* kwargs of GetOrInsert: a mapping, as a set of <<name, value>> pairs.
FieldChoices == { {}, {<<"a", "v1">>}, {<<"a", "v2">>} }

\* Entity(key) followed by obj[k] = v for every kwarg.
Entity(key, props) == [key |-> key, props |-> props]

\* An optional value: <<>> is None, <<x>> is x.
None == <<>>
Some(x) == <<x>>

\* ------------------------------------------------------- datastore client
\* The committed entity under key, or None.
StoreLookup(st, key) ==
    IF \E e \in st : e.key = key
    THEN Some(CHOOSE e \in st : e.key = key)
    ELSE None

\* The committed store after one write: the entity replaces what the key held.
StoreWrite(st, e) == {x \in st : x.key # e.key} \cup {e}

RECURSIVE ApplyMutations(_, _)
ApplyMutations(st, muts) ==
    IF muts = <<>> THEN st
    ELSE ApplyMutations(StoreWrite(st, Head(muts)), Tail(muts))

\* A fresh transaction handle: its key, no mutation, no flag.
NewTxn(key) == [key |-> key, mutations |-> <<>>, reads |-> {}, flags |-> {}]

\* Get(key) inside transaction h: reads the committed store and remembers
\* what it saw, for the conflict check at commit.
Get(h, st, key) ==
    [h |-> [h EXCEPT !.reads = @ \cup {[key |-> key, seen |-> StoreLookup(st, key)]}],
     obj |-> StoreLookup(st, key)]

\* Put(entity) inside transaction h: buffered until commit.
Put(h, e) == [h EXCEPT !.mutations = Append(@, e)]

\* The commit-time conflict check: everything read is still what was read.
Validates(h, st) == \A r \in h.reads : StoreLookup(st, r.key) = r.seen

\* ------------------------------------------------------------- utils.py
\* A GetOrInsert that never notices the running transaction.
IsInTransaction_Never(s) == FALSE

\* IsInTransaction(): currentTransaction.get() is not None
IsInTransaction(s) == s # None

\* `not obj`: None is falsy, and so is an Entity (a dict) without properties.
Falsy(obj) == obj = None \/ obj[1].props = {}

\* GetOrInsert.txn(key, kwargs), run in transaction h against store st.
txn(h, st, key, kwargs) ==
    LET got == Get(h, st, key) IN
    IF Falsy(got.obj)
    THEN LET obj == Entity(key, kwargs) IN [h |-> Put(got.h, obj), obj |-> Some(obj)]
    ELSE [h |-> got.h, obj |-> got.obj]

\* The marker acquisition without its assertion: no failure outside a transaction.
acquire_NoAssert(s) ==
    IF s = None
    THEN [error |-> "", slot |-> s, marker |-> None]
    ELSE LET h == s[1]
             e == Entity(MarkerKey(h.key), {<<"creationdate", "utcnow">>})
         IN  IF "viurTxnMarkerSet" \notin h.flags
             THEN [error |-> "",
                   slot |-> Some([Put(h, e) EXCEPT !.flags = @ \cup {"viurTxnMarkerSet"}]),
                   marker |-> Some(h.key)]
             ELSE [error |-> "", slot |-> s, marker |-> Some(h.key)]

\* The marker acquisition that forgets to set viurTxnMarkerSet.
acquire_NoFlag(s) ==
    IF s = None
    THEN [error |-> "NotInTransaction", slot |-> s, marker |-> None]
    ELSE LET h == s[1]
             e == Entity(MarkerKey(h.key), {<<"creationdate", "utcnow">>})
         IN  [error |-> "", slot |-> Some(Put(h, e)), marker |-> Some(h.key)]

\* The marker acquisition that sets the flag and never writes the sentinel.
acquire_NoPut(s) ==
    IF s = None
    THEN [error |-> "NotInTransaction", slot |-> s, marker |-> None]
    ELSE LET h == s[1]
         IN  [error |-> "",
              slot |-> Some([h EXCEPT !.flags = @ \cup {"viurTxnMarkerSet"}]),
              marker |-> Some(h.key)]

\* acquireTransactionSuccessMarker(), given the current-transaction slot.
acquireTransactionSuccessMarker(s) ==
    IF s = None
    THEN [error |-> "NotInTransaction", slot |-> s, marker |-> None]
    ELSE LET h == s[1]
             marker == h.key
         IN  IF "viurTxnMarkerSet" \notin h.flags
             THEN LET e == Entity(MarkerKey(marker), {<<"creationdate", "utcnow">>})
                  IN  [error |-> "",
                       slot |-> Some([Put(h, e) EXCEPT !.flags = @ \cup {"viurTxnMarkerSet"}]),
                       marker |-> Some(marker)]
             ELSE [error |-> "", slot |-> s, marker |-> Some(marker)]

\* ------------------------------------------------------------ access log
\* Keys a request may read.
LogKeys == {"k1", "k2"}

\* What a Python name may hold here: nothing yet (a context variable never
\* set), None, or a reference to a set object of the heap.
VUnset == [t |-> "unset", ref |-> 0]
VNone == [t |-> "none", ref |-> 0]
VRef(r) == [t |-> "set", ref |-> r]

\* The elements of the set a value refers to.
Content(heap, v) == IF v.t = "set" THEN heap[v.ref] ELSE {}

\* currentDbAccessLog.get(): None when the variable was never set.
SlotGet(s) == IF s.t = "unset" THEN VNone ELSE s

\* An endDataAccessLog that returns the log it installs.
endDataAccessLog_ReturnsUnion(s, heap, outer) ==
    LET res == SlotGet(s) IN
    IF outer.t = "set"
    THEN IF res.t # "set"
         THEN [error |-> "TypeError", slot |-> s, heap |-> heap, res |-> VNone]
         ELSE [error |-> "", slot |-> VRef(Len(heap) + 1),
               heap |-> Append(heap, heap[outer.ref] \cup heap[res.ref]),
               res |-> VRef(Len(heap) + 1)]
    ELSE [error |-> "", slot |-> VNone, heap |-> heap, res |-> res]

\* A startDataAccessLog that returns the old log and installs no new set.
startDataAccessLog_KeepsLog(s, heap) ==
    LET heap1 == IF s.t = "unset" THEN Append(heap, {}) ELSE heap
        old == IF s.t = "unset" THEN VRef(Len(heap1)) ELSE s
    IN  [slot |-> old, heap |-> heap1, old |-> old]

\* startDataAccessLog(): the old value (a new empty set when the variable was
\* never set) is returned and a new empty set is installed.
startDataAccessLog(s, heap) ==
    LET heap1 == IF s.t = "unset" THEN Append(heap, {}) ELSE heap
        old == IF s.t = "unset" THEN VRef(Len(heap1)) ELSE s
    IN  [slot |-> VRef(Len(heap1) + 1), heap |-> Append(heap1, {}), old |-> old]

\* An endDataAccessLog that installs the outer log without merging.
endDataAccessLog_NoMerge(s, heap, outer) ==
    LET res == SlotGet(s) IN
    IF outer.t = "set"
    THEN IF res.t # "set"
         THEN [error |-> "TypeError", slot |-> s, heap |-> heap, res |-> VNone]
         ELSE [error |-> "", slot |-> outer, heap |-> heap, res |-> res]
    ELSE [error |-> "", slot |-> VNone, heap |-> heap, res |-> res]

\* An endDataAccessLog that leaves the slot alone when no outer log is given.
endDataAccessLog_KeepsSlot(s, heap, outer) ==
    LET res == SlotGet(s) IN
    IF outer.t = "set"
    THEN IF res.t # "set"
         THEN [error |-> "TypeError", slot |-> s, heap |-> heap, res |-> VNone]
         ELSE [error |-> "", slot |-> VRef(Len(heap) + 1),
               heap |-> Append(heap, heap[outer.ref] \cup heap[res.ref]), res |-> res]
    ELSE [error |-> "", slot |-> s, heap |-> heap, res |-> res]

\* endDataAccessLog(outerAccessLog): res is the current log; with a set given,
\* a new set, the union of the two, is installed (the union of a set and None
\* raises TypeError); otherwise the slot is set to None.  res is returned.
endDataAccessLog(s, heap, outer) ==
    LET res == SlotGet(s) IN
    IF outer.t = "set"
    THEN IF res.t # "set"
         THEN [error |-> "TypeError", slot |-> s, heap |-> heap, res |-> VNone]
         ELSE [error |-> "", slot |-> VRef(Len(heap) + 1),
               heap |-> Append(heap, heap[outer.ref] \cup heap[res.ref]), res |-> res]
    ELSE [error |-> "", slot |-> VNone, heap |-> heap, res |-> res]

\* Get(key) on the read path: the key joins the current log when one is set.
LogAccess(s, heap, k) ==
    IF s.t = "set" THEN [heap EXCEPT ![s.ref] = @ \cup {k}] ELSE heap

\* A scope of the caller, from its startDataAccessLog on: the log there was at
\* its start and what the slot held, the keys read since, and whether every
\* call since was a startDataAccessLog or the paired endDataAccessLog of a
\* scope inside it.
NoScope == [L |-> {}, hadLog |-> FALSE, slotAt |-> "", reads |-> {}, proper |-> FALSE]

NoLast ==
    [op |-> "none", paired |-> FALSE, hadLog |-> FALSE, L |-> {}, outer |-> {},
     before |-> {}, after |-> {}, scope |-> NoScope, old |-> VNone]

InitLog ==
    [slot |-> VUnset, heap |-> <<>>, stack |-> <<>>, scopes |-> <<>>, res |-> VNone,
     calls |-> MaxLogCalls, reads |-> MaxLogReads, last |-> NoLast]

\* ------------------------------------------------------------------- keys
Kinds == {"Person", "Org", "Other"}

\* The application/namespace configured now, and the one of older tokens.
CurrentApp == "app"
Apps == {CurrentApp, "legacy-app"}

\* A string is a sequence of characters.  id_or_name is an int or a string.
IntId(n) == [t |-> "int", n |-> n, s |-> <<>>]
NameId(str) == [t |-> "name", n |-> 0, s |-> str]
Ids == {IntId(12), NameId(<<"1", "2">>), NameId(<<"a">>)}

\* Key(kind, id_or_name, parent=None): a key of the current application.
Key(kind, id, parent) == [kind |-> kind, id |-> id, parent |-> parent, app |-> CurrentApp]

\* The keys with at most d ancestors, of any application.
RECURSIVE KeysUpTo(_)
KeysUpTo(d) ==
    LET parents == IF d = 0 THEN {None} ELSE {None} \cup {Some(k) : k \in KeysUpTo(d - 1)}
    IN  {[kind |-> kind, id |-> id, parent |-> par, app |-> app] :
            kind \in Kinds, id \in Ids, par \in parents, app \in Apps}

\* The decimal digits, and a character that is a digit and not a decimal:
\* SuperscriptTwo stands for U+00B2.
Digits == <<"0", "1", "2", "3", "4", "5", "6", "7", "8", "9">>
SuperscriptTwo == "sup2"
IsDecimalChar(c) == \E i \in DOMAIN Digits : Digits[i] = c
IsDigitChar(c) == IsDecimalChar(c) \/ c = SuperscriptTwo
DigitValue(c) == (CHOOSE i \in DOMAIN Digits : Digits[i] = c) - 1

\* str.isdigit(): not empty and every character a digit.
isdigit(str) == str # <<>> /\ \A i \in DOMAIN str : IsDigitChar(str[i])

\* str.isdecimal(): not empty and every character a decimal digit.
isdecimal(str) == str # <<>> /\ \A i \in DOMAIN str : IsDecimalChar(str[i])

\* int(str): the value of a string of decimal digits, None where int raises
\* ValueError.
RECURSIVE DecimalValue(_)
DecimalValue(str) ==
    IF str = <<>> THEN 0
    ELSE DecimalValue(SubSeq(str, 1, Len(str) - 1)) * 10 + DigitValue(str[Len(str)])

int(str) == IF isdecimal(str) THEN Some(DecimalValue(str)) ELSE None

\* str(n) of a natural number.
RECURSIVE IntToStr(_)
IntToStr(n) ==
    IF n < 10 THEN <<Digits[n + 1]>>
    ELSE IntToStr(n \div 10) \o <<Digits[(n % 10) + 1]>>

\* The legacy token of a key: "~", the application, then from the root down
\* one "/"-terminated element per key: kind, "#" and digits or "$" and a name.
RECURSIVE PathToken(_)
PathToken(k) ==
    (IF k.parent = None THEN <<>> ELSE PathToken(k.parent[1]))
    \o <<k.kind>>
    \o (IF k.id.t = "int" THEN <<"#">> \o IntToStr(k.id.n) ELSE <<"$">> \o k.id.s)
    \o <<"/">>

to_legacy_urlsafe(k) == <<"~", k.app>> \o PathToken(k)

\* One element of a token: <<kind, "#" | "$", payload...>>, or nothing.
ParseElement(el, app, parent) ==
    IF Len(el) < 3 \/ el[1] \notin Kinds \/ el[2] \notin {"#", "$"} THEN None
    ELSE LET payload == SubSeq(el, 3, Len(el)) IN
         IF el[2] = "#"
         THEN IF isdecimal(payload)
              THEN Some([kind |-> el[1], id |-> IntId(DecimalValue(payload)), parent |-> parent, app |-> app])
              ELSE None
         ELSE Some([kind |-> el[1], id |-> NameId(payload), parent |-> parent, app |-> app])

\* The elements of a token from position i on, el being the element read so
\* far and parent the key decoded so far; None when the token is malformed.
RECURSIVE ParsePath(_, _, _, _, _)
ParsePath(str, i, el, app, parent) ==
    IF i > Len(str) THEN (IF el = <<>> THEN parent ELSE None)
    ELSE IF str[i] = "/"
         THEN LET k == ParseElement(el, app, parent) IN
              IF k = None THEN None ELSE ParsePath(str, i + 1, <<>>, app, k)
         ELSE ParsePath(str, i + 1, Append(el, str[i]), app, parent)

\* Key.from_legacy_urlsafe(str): the key, or None where it raises.
from_legacy_urlsafe(str) ==
    IF Len(str) < 3 \/ str[1] # "~" \/ str[2] \notin Apps THEN None
    ELSE ParsePath(str, 3, <<>>, str[2], None)

\* A normalizeKey that rebuilds the key and keeps its parent as given.
normalizeKey_ShallowParent(key) ==
    IF key = None THEN None
    ELSE Some(Key(key[1].kind, key[1].id, key[1].parent))

\* normalizeKey(key): the key rebuilt, parents first, in the current application.
RECURSIVE normalizeKey(_)
normalizeKey(key) ==
    IF key = None THEN None
    ELSE LET parent == IF key[1].parent # None THEN normalizeKey(key[1].parent) ELSE None
         IN  Some(Key(key[1].kind, key[1].id, parent))

Returns(k) == [error |-> "", key |-> Some(k)]
Raises(e) == [error |-> e, key |-> None]

\* A keyHelper that rewrites a foreign kind whether or not adjust_kind is set.
keyHelperKey_NeverRaises(inKey, targetKind, additionalAllowedKinds, adjust_kind) ==
    IF inKey.kind # targetKind /\ inKey.kind \notin additionalAllowedKinds
    THEN Returns([inKey EXCEPT !.kind = targetKind])
    ELSE Returns(inKey)

\* keyHelper, the branch of a Key given.
keyHelperKey(inKey, targetKind, additionalAllowedKinds, adjust_kind) ==
    IF inKey.kind # targetKind /\ inKey.kind \notin additionalAllowedKinds
    THEN IF ~adjust_kind
         THEN Raises("KindMismatch")
         ELSE Returns([inKey EXCEPT !.kind = targetKind])
    ELSE Returns(inKey)

\* The arguments keyHelper may be given as inKey.
KeyArg(k) == [t |-> "key", key |-> Some(k), str |-> <<>>, int |-> 0]
StrArg(str) == [t |-> "str", key |-> None, str |-> str, int |-> 0]
IntArg(n) == [t |-> "int", key |-> None, str |-> <<>>, int |-> n]
OtherArg == [t |-> "other", key |-> None, str |-> <<>>, int |-> 0]

\* keyHelper(inKey, targetKind, additionalAllowedKinds, adjust_kind)
keyHelper(inKey, targetKind, additionalAllowedKinds, adjust_kind) ==
    IF inKey.t = "key"
    THEN keyHelperKey(inKey.key[1], targetKind, additionalAllowedKinds, adjust_kind)
    ELSE IF inKey.t = "str"
    THEN LET decodedKey == normalizeKey(from_legacy_urlsafe(inKey.str)) IN
         IF decodedKey # None
         THEN keyHelperKey(decodedKey[1], targetKind, additionalAllowedKinds, adjust_kind)
         ELSE IF isdigit(inKey.str)
              THEN IF int(inKey.str) = None
                   THEN Raises("ValueError")
                   ELSE Returns(Key(targetKind, IntId(int(inKey.str)[1]), None))
              ELSE Returns(Key(targetKind, NameId(inKey.str), None))
    ELSE IF inKey.t = "int"
    THEN Returns(Key(targetKind, IntId(inKey.int), None))
    ELSE Raises("UnsupportedKeyType")

\* Strings that are no legacy token.
PlainStrings ==
    {<<"1", "2">>, <<"0", "1", "2">>, <<"1", "2", "3", "4", "5">>, <<"a">>, <<"a", "1">>, <<>>, <<SuperscriptTwo>>,
     <<"1", SuperscriptTwo>>, <<"~", "app", "Person", "#", "/">>,
     <<"~", "app", "Person", "$", "a">>}

KeyInputs ==
    {KeyArg(k) : k \in KeysUpTo(MaxDepth)}
    \cup {StrArg(to_legacy_urlsafe(k)) : k \in KeysUpTo(MaxDepth)}
    \cup {StrArg(str) : str \in PlainStrings}
    \cup {IntArg(n) : n \in {0, 12}}
    \cup {OtherArg}

AllowedChoices == { {}, {"Org"}, {"Org", "Other"} }

NoCall ==
    [done |-> FALSE, inKey |-> OtherArg, targetKind |-> "", allowed |-> {},
     adjust_kind |-> FALSE, out |-> Raises("")]

\* ------------------------------------------------------- property values
\* The longest string the datastore indexes is one shorter than this.
IndexLimit == 500

\* Property values: a number, a str or bytes of a length, a list, a plain
\* dict, and an Entity: a dict with a key and exclude_from_indexes.
IntValue == [t |-> "int"]
Str(n) == [t |-> "str", len |-> n]
Bytes(n) == [t |-> "bytes", len |-> n]
List(items) == [t |-> "list", items |-> items]
Dict(props) == [t |-> "dict", props |-> props]
EntityOf(key, props, exclude) ==
    [t |-> "Entity", key |-> key, props |-> props, exclude_from_indexes |-> exclude]

\* isinstance(v, dict): Entity is a dict.
IsDict(v) == v.t \in {"dict", "Entity"}

\* A hasUnindexableProperty that takes the limit itself as indexable.
RECURSIVE hasUnindexableProperty_Above(_)
hasUnindexableProperty_Above(prop) ==
    IF IsDict(prop)
    THEN \E k \in DOMAIN prop.props : hasUnindexableProperty_Above(prop.props[k])
    ELSE IF prop.t = "list"
    THEN \E i \in DOMAIN prop.items : hasUnindexableProperty_Above(prop.items[i])
    ELSE IF prop.t \in {"str", "bytes"}
    THEN prop.len > IndexLimit
    ELSE FALSE

\* hasUnindexableProperty(prop)
RECURSIVE hasUnindexableProperty(_)
hasUnindexableProperty(prop) ==
    IF IsDict(prop)
    THEN \E k \in DOMAIN prop.props : hasUnindexableProperty(prop.props[k])
    ELSE IF prop.t = "list"
    THEN \E i \in DOMAIN prop.items : hasUnindexableProperty(prop.items[i])
    ELSE IF prop.t \in {"str", "bytes"}
    THEN prop.len >= IndexLimit
    ELSE FALSE

\* A sanitizer that recurses into plain dicts only and excludes the name of
\* a nested Entity, as it does with a list.
RECURSIVE fixUnindexableProperties_PlainDictsOnly(_)
fixUnindexableProperties_PlainDictsOnly(entry) ==
    LET fixed(v) ==
            IF hasUnindexableProperty(v) /\ v.t = "dict"
            THEN [fixUnindexableProperties_PlainDictsOnly(EntityOf(None, v.props, {}))
                     EXCEPT !.key = None]
            ELSE v
        resList == {k \in DOMAIN entry.props :
                        hasUnindexableProperty(entry.props[k]) /\ entry.props[k].t # "dict"}
    IN  [entry EXCEPT !.props = [k \in DOMAIN entry.props |-> fixed(entry.props[k])],
                      !.exclude_from_indexes = resList]

\* A sanitizer that does not recurse: the name of a nested mapping with a long
\* string is excluded like any other.
fixUnindexableProperties_Flat(entry) ==
    [entry EXCEPT !.exclude_from_indexes =
        {k \in DOMAIN entry.props : hasUnindexableProperty(entry.props[k])}]

\* fixUnindexableProperties(entry): the entity as the call leaves and returns it.
RECURSIVE fixUnindexableProperties(_)
fixUnindexableProperties(entry) ==
    LET fixed(v) ==
            IF hasUnindexableProperty(v) /\ IsDict(v)
            THEN [fixUnindexableProperties(EntityOf(None, v.props, {}))
                     EXCEPT !.key = IF v.t = "Entity" THEN v.key ELSE None]
            ELSE v
        resList == {k \in DOMAIN entry.props :
                        hasUnindexableProperty(entry.props[k]) /\ ~IsDict(entry.props[k])}
    IN  [entry EXCEPT !.props = [k \in DOMAIN entry.props |-> fixed(entry.props[k])],
                      !.exclude_from_indexes = resList]

\* The mappings with names from names and values from values; a name may be
\* missing.
Mappings(names, values) ==
    UNION {[present -> values] : present \in SUBSET names}

\* A mapping as a plain dict, as an Entity with a key and as one without.
FixKey == Some(Key("Person", IntId(12), None))
Forms(props, names) ==
    {Dict(props)} \cup {EntityOf(key, props, exclude) :
                            key \in {None, FixKey}, exclude \in {{}, names}}

\* The values the model draws from: scalars, lists, and mappings nested in
\* mappings.
Strings == {Str(IndexLimit - 1), Str(IndexLimit)}
Scalars == Strings \cup {IntValue, Bytes(IndexLimit)}
Lists ==
    {List(<<Str(IndexLimit)>>), List(<<Str(IndexLimit - 1), IntValue>>),
     List(<<Dict([z |-> Str(IndexLimit)])>>)}
InnerDicts ==
    UNION {Forms(props, {"z"}) : props \in Mappings({"z"}, Strings)}
NestedDicts ==
    UNION {Forms(props, {"x"}) :
              props \in {p \in Mappings({"x", "y"}, Strings \cup InnerDicts) :
                            "y" \in DOMAIN p => p["y"] \in Strings}}
TopEntities ==
    {EntityOf(FixKey, props, exclude) :
        props \in {p \in Mappings({"a", "b"}, Scalars \cup Lists \cup NestedDicts) :
                      "b" \in DOMAIN p => p["b"] \in Scalars},
        exclude \in {{}, {"a"}, {"b"}}}

\* entry[path[1]][path[2]]... = value; nothing changes where the path does not
\* lead through mappings.
RECURSIVE SetAt(_, _, _)
SetAt(v, path, value) ==
    IF path = <<>> THEN value
    ELSE IF ~IsDict(v) THEN v
    ELSE IF Len(path) > 1 /\ path[1] \notin DOMAIN v.props THEN v
    ELSE [v EXCEPT !.props =
            [k \in DOMAIN v.props \cup {path[1]} |->
                IF k = path[1]
                THEN SetAt(IF k \in DOMAIN v.props THEN v.props[k] ELSE value,
                           Tail(path), value)
                ELSE v.props[k]]]

ChangePaths == {<<"a">>, <<"b">>, <<"a", "x">>, <<"a", "x", "z">>}
ChangeValues ==
    Strings \cup {Str(0), Str(IndexLimit + 1), List(<<Str(IndexLimit)>>),
                  Dict([x |-> Str(IndexLimit)])}

NoFix ==
    [entry |-> EntityOf(None, <<>>, {}), changes |-> 0, last |-> "none",
     before |-> EntityOf(None, <<>>, {})]

\* ------------------------------------------------------ execution contexts
\* The identity of the n-th transaction context p opens.
TxnKey(p, n) == <<p, n>>

SlotKey(s) == IF s = None THEN None ELSE Some(s[1].key)

InitCtx ==
    [top |-> "none", kwargs |-> {}, attempts |-> 0, nTxn |-> 0, saved |-> None,
     result |-> None, lastOp |-> "none", calls |-> 0, slotBefore |-> None, rit |-> 0,
     acq |-> 0, rets |-> {}, outcome |-> ""]

InitHist ==
    [created |-> 0, first |-> None, committed |-> {}, acquired |-> {}]

Init ==
    /\ store = {}
    /\ slot = [p \in Procs |-> None]
    /\ pc = [p \in Procs |-> "idle"]
    /\ ctx = [p \in Procs |-> InitCtx]
    /\ ops = NumCallers
    /\ hist = InitHist
    /\ log = InitLog
    /\ kh = NoCall
    /\ fx = NoFix

\* GetOrInsert(key, **kwargs): directly in the running transaction, or through
\* RunInTransaction, which saves the slot, opens a transaction and runs txn in
\* it; the commit is a later step of the runner.
GetOrInsert(p, kwargs) ==
    /\ pc[p] \in {"idle", "user"}
    /\ ops > 0
    /\ ops' = ops - 1
    /\ IF IsInTransaction(slot[p])
       THEN LET r == txn(slot[p][1], store, DataKey, kwargs) IN
            /\ slot' = [slot EXCEPT ![p] = Some(r.h)]
            /\ ctx' = [ctx EXCEPT ![p] =
                          [@ EXCEPT !.result = r.obj, !.lastOp = "goi", !.calls = @ + 1,
                                    !.slotBefore = SlotKey(slot[p]), !.rit = 0,
                                    !.outcome = "ok"]]
            /\ pc' = pc
       ELSE LET r == txn(NewTxn(TxnKey(p, ctx[p].nTxn + 1)), store, DataKey, kwargs) IN
            /\ slot' = [slot EXCEPT ![p] = Some(r.h)]
            /\ ctx' = [ctx EXCEPT ![p] =
                          [@ EXCEPT !.top = "goi", !.kwargs = kwargs, !.attempts = 0,
                                    !.nTxn = @ + 1, !.saved = slot[p], !.result = r.obj,
                                    !.lastOp = "goi", !.calls = @ + 1,
                                    !.slotBefore = SlotKey(slot[p]), !.rit = 1,
                                    !.acq = 0, !.rets = {}, !.outcome = "pending"]]
            /\ pc' = [pc EXCEPT ![p] = "commit"]
    /\ UNCHANGED <<store, hist, log, kh, fx>>

\* RunInTransaction(callback) called by application code outside a transaction:
\* the callback then calls GetOrInsert and acquireTransactionSuccessMarker.
BeginUser(p) ==
    /\ pc[p] = "idle"
    /\ ops > 0
    /\ ops' = ops - 1
    /\ slot' = [slot EXCEPT ![p] = Some(NewTxn(TxnKey(p, ctx[p].nTxn + 1)))]
    /\ ctx' = [ctx EXCEPT ![p] =
                  [@ EXCEPT !.top = "user", !.attempts = 0, !.nTxn = @ + 1,
                            !.saved = slot[p], !.lastOp = "user", !.calls = @ + 1,
                            !.acq = 0, !.rets = {}, !.outcome = "pending"]]
    /\ pc' = [pc EXCEPT ![p] = "user"]
    /\ UNCHANGED <<store, hist, log, kh, fx>>

\* A call of acquireTransactionSuccessMarker(), inside the callback or outside
\* any transaction (where it raises and the context goes on).
AcquireMarker(p) ==
    /\ pc[p] \in {"idle", "user"}
    /\ ops > 0
    /\ ops' = ops - 1
    /\ LET r == acquireTransactionSuccessMarker(slot[p]) IN
       /\ slot' = [slot EXCEPT ![p] = r.slot]
       /\ ctx' = [ctx EXCEPT ![p] =
                     [@ EXCEPT !.lastOp = "acquire", !.calls = @ + 1,
                               !.acq = IF r.error = "" THEN @ + 1 ELSE @,
                               !.rets = @ \cup {r.marker[i] : i \in DOMAIN r.marker},
                               !.outcome = IF r.error = "" THEN "ok" ELSE r.error]]
       /\ hist' = [hist EXCEPT !.acquired =
                      @ \cup {[marker |-> r.marker[i], txn |-> slot[p][j].key] :
                                 i \in DOMAIN r.marker, j \in DOMAIN slot[p]}]
    /\ UNCHANGED <<store, pc, log, kh, fx>>

\* The application callback returns: the runner goes on to commit.
UserFinish(p) ==
    /\ pc[p] = "user"
    /\ pc' = [pc EXCEPT ![p] = "commit"]
    /\ UNCHANGED <<store, slot, ctx, ops, hist, log, kh, fx>>

\* The application callback raises: the runner rolls back, restores the slot
\* and re-raises.
UserRaise(p) ==
    /\ pc[p] = "user"
    /\ slot' = [slot EXCEPT ![p] = ctx[p].saved]
    /\ ctx' = [ctx EXCEPT ![p] = [@ EXCEPT !.top = "none", !.outcome = "UserError"]]
    /\ pc' = [pc EXCEPT ![p] = "idle"]
    /\ UNCHANGED <<store, ops, hist, log, kh, fx>>

\* The writes of a transaction to the data key.
DataWrites(h) == SelectSeq(h.mutations, LAMBDA e : e.key = DataKey)

\* Commit without conflict: the buffered writes reach the store at once and the
\* slot is restored.
CommitOk(p) ==
    /\ pc[p] = "commit"
    /\ Validates(slot[p][1], store)
    /\ LET h == slot[p][1]
           w == DataWrites(h)
       IN  /\ store' = ApplyMutations(store, h.mutations)
           /\ hist' = [hist EXCEPT
                         !.committed = @ \cup {h.key},
                         !.created = IF w # <<>> THEN @ + 1 ELSE @,
                         !.first = IF w # <<>> /\ @ = None
                                   THEN Some(w[Len(w)].props) ELSE @]
    /\ slot' = [slot EXCEPT ![p] = ctx[p].saved]
    /\ ctx' = [ctx EXCEPT ![p] = [@ EXCEPT !.top = "none", !.outcome = "ok"]]
    /\ pc' = [pc EXCEPT ![p] = "idle"]
    /\ UNCHANGED <<ops, log, kh, fx>>

\* Commit meets a conflict and the retry budget is not used up: the runner
\* opens a new transaction and runs the callback again.
CommitRetry(p) ==
    /\ pc[p] = "commit"
    /\ ~Validates(slot[p][1], store)
    /\ ctx[p].attempts < MaxRetries
    /\ LET h0 == NewTxn(TxnKey(p, ctx[p].nTxn + 1))
           r == txn(h0, store, DataKey, ctx[p].kwargs)
           c == [ctx[p] EXCEPT !.attempts = @ + 1, !.nTxn = @ + 1, !.acq = 0, !.rets = {}]
       IN  IF ctx[p].top = "goi"
           THEN /\ slot' = [slot EXCEPT ![p] = Some(r.h)]
                /\ ctx' = [ctx EXCEPT ![p] = [c EXCEPT !.result = r.obj]]
                /\ pc' = pc
           ELSE /\ slot' = [slot EXCEPT ![p] = Some(h0)]
                /\ ctx' = [ctx EXCEPT ![p] = c]
                /\ pc' = [pc EXCEPT ![p] = "user"]
    /\ UNCHANGED <<store, ops, hist, log, kh, fx>>

\* Commit meets a conflict beyond the retry budget: TransactionAborted.
CommitAbort(p) ==
    /\ pc[p] = "commit"
    /\ ~Validates(slot[p][1], store)
    /\ ctx[p].attempts >= MaxRetries
    /\ slot' = [slot EXCEPT ![p] = ctx[p].saved]
    /\ ctx' = [ctx EXCEPT ![p] =
                  [@ EXCEPT !.top = "none", !.result = None,
                            !.outcome = "TransactionAborted"]]
    /\ pc' = [pc EXCEPT ![p] = "idle"]
    /\ UNCHANGED <<store, ops, hist, log, kh, fx>>

vars == <<store, slot, pc, ctx, ops, hist, log, kh, fx>>

\* N concurrent callers racing on the data key, each making one call of
\* GetOrInsert outside any transaction.
Next ==
    \/ \E p \in Procs, kwargs \in FieldChoices :
          ctx[p].lastOp = "none" /\ GetOrInsert(p, kwargs)
    \/ \E p \in Procs : CommitOk(p)
    \/ \E p \in Procs : CommitRetry(p)
    \/ \E p \in Procs : CommitAbort(p)

Spec == Init /\ [][Next]_vars

\* Context 1 runs application transactions that call GetOrInsert and
\* acquireTransactionSuccessMarker; the other contexts are concurrent
\* GetOrInsert callers.
InitTxn ==
    /\ store = {}
    /\ slot = [p \in Procs |-> None]
    /\ pc = [p \in Procs |-> "idle"]
    /\ ctx = [p \in Procs |-> InitCtx]
    /\ ops = MaxTxnCalls
    /\ hist = InitHist
    /\ log = InitLog
    /\ kh = NoCall
    /\ fx = NoFix

NextTxn ==
    \/ \E p \in TxnProcs, kwargs \in FieldChoices :
          (p = 1 \/ pc[p] = "idle") /\ GetOrInsert(p, kwargs)
    \/ BeginUser(1)
    \/ AcquireMarker(1)
    \/ UserFinish(1)
    \/ UserRaise(1)
    \/ \E p \in TxnProcs : CommitOk(p)
    \/ \E p \in TxnProcs : CommitRetry(p)
    \/ \E p \in TxnProcs : CommitAbort(p)

SpecTxn == InitTxn /\ [][NextTxn]_vars

\* ----------------------------------------------------- access log scopes
\* The caller calls startDataAccessLog() and keeps what it returns.
StartLog ==
    /\ log.calls > 0
    /\ LET r == startDataAccessLog(log.slot, log.heap) IN
       log' = [log EXCEPT !.slot = r.slot, !.heap = r.heap,
                          !.stack = Append(@, r.old), !.calls = @ - 1,
                          !.scopes = Append(@, [L |-> Content(log.heap, log.slot),
                                                hadLog |-> log.slot.t = "set",
                                                slotAt |-> log.slot.t,
                                                reads |-> {}, proper |-> TRUE]),
                          !.last = [NoLast EXCEPT !.op = "start",
                                                  !.hadLog = log.slot.t = "set",
                                                  !.L = Content(log.heap, log.slot)]]
    /\ UNCHANGED <<store, slot, pc, ctx, ops, hist, kh, fx>>

\* The request reads key k through Get.
ReadKey(k) ==
    /\ log.reads > 0
    /\ log' = [log EXCEPT !.heap = LogAccess(log.slot, log.heap, k), !.reads = @ - 1,
                          !.scopes = [i \in DOMAIN @ |-> [@[i] EXCEPT !.reads = @ \cup {k}]],
                          !.last = [@ EXCEPT !.after = @ \cup {k}]]
    /\ UNCHANGED <<store, slot, pc, ctx, ops, hist, kh, fx>>

\* The state after endDataAccessLog(outer), the caller keeping the result;
\* scope is the scope the call ends, if it is the paired call of one.
EndLogWith(lg, outer, paired, scope) ==
    LET r == endDataAccessLog(lg.slot, lg.heap, outer) IN
    [lg EXCEPT !.slot = r.slot, !.heap = r.heap, !.res = r.res, !.calls = @ - 1,
               !.last = [op |-> IF r.error # "" THEN r.error
                                ELSE IF outer.t = "set" THEN "end" ELSE "end0",
                         paired |-> paired,
                         hadLog |-> lg.last.hadLog,
                         L |-> lg.last.L,
                         outer |-> Content(lg.heap, outer),
                         before |-> Content(lg.heap, SlotGet(lg.slot)),
                         after |-> {},
                         scope |-> scope,
                         old |-> outer]]

\* The caller ends the scope with what the matching startDataAccessLog returned.
EndLogPaired ==
    /\ log.calls > 0
    /\ log.stack # <<>>
    /\ LET n == Len(log.stack) IN
       log' = EndLogWith([log EXCEPT !.stack = SubSeq(@, 1, n - 1),
                                     !.scopes = SubSeq(@, 1, n - 1)],
                         log.stack[n],
                         log.last.op = "start" /\ log.last.after = {},
                         log.scopes[n])
    /\ UNCHANGED <<store, slot, pc, ctx, ops, hist, kh, fx>>

\* The caller ends the scope with a set of its own.
EndLogLiteral(S) ==
    /\ log.calls > 0
    /\ LET lg == [log EXCEPT !.heap = Append(@, S),
                             !.scopes = [i \in DOMAIN @ |-> [@[i] EXCEPT !.proper = FALSE]]]
       IN  log' = EndLogWith(lg, VRef(Len(lg.heap)), FALSE, NoScope)
    /\ UNCHANGED <<store, slot, pc, ctx, ops, hist, kh, fx>>

\* The caller ends the scope without an outer log.
EndLogNoArg ==
    /\ log.calls > 0
    /\ LET lg == [log EXCEPT
                     !.scopes = [i \in DOMAIN @ |-> [@[i] EXCEPT !.proper = FALSE]]]
       IN  log' = EndLogWith(lg, VNone, FALSE, NoScope)
    /\ UNCHANGED <<store, slot, pc, ctx, ops, hist, kh, fx>>

InitAccessLog ==
    /\ store = {}
    /\ slot = [p \in Procs |-> None]
    /\ pc = [p \in Procs |-> "idle"]
    /\ ctx = [p \in Procs |-> InitCtx]
    /\ ops = 0
    /\ hist = InitHist
    /\ log = InitLog
    /\ kh = NoCall
    /\ fx = NoFix

NextLog ==
    \/ StartLog
    \/ \E k \in LogKeys : ReadKey(k)
    \/ EndLogPaired
    \/ \E S \in SUBSET LogKeys : EndLogLiteral(S)
    \/ EndLogNoArg

SpecLog == InitAccessLog /\ [][NextLog]_vars

\* ------------------------------------------------------------- key helper
\* A call of keyHelper with any arguments of the bounded sets.
InitKey ==
    /\ store = {}
    /\ slot = [p \in Procs |-> None]
    /\ pc = [p \in Procs |-> "idle"]
    /\ ctx = [p \in Procs |-> InitCtx]
    /\ ops = 0
    /\ hist = InitHist
    /\ log = InitLog
    /\ fx = NoFix
    /\ \E inKey \in KeyInputs, targetKind \in {"Person", "Org"},
          allowed \in AllowedChoices, adjust_kind \in BOOLEAN :
          kh = [NoCall EXCEPT !.inKey = inKey, !.targetKind = targetKind,
                              !.allowed = allowed, !.adjust_kind = adjust_kind]

CallKeyHelper ==
    /\ ~kh.done
    /\ kh' = [kh EXCEPT !.done = TRUE,
                        !.out = keyHelper(kh.inKey, kh.targetKind, kh.allowed, kh.adjust_kind)]
    /\ UNCHANGED <<store, slot, pc, ctx, ops, hist, log, fx>>

NextKey == CallKeyHelper

SpecKey == InitKey /\ [][NextKey]_vars

\* ------------------------------------------------------- index sanitizer
InitFix ==
    /\ store = {}
    /\ slot = [p \in Procs |-> None]
    /\ pc = [p \in Procs |-> "idle"]
    /\ ctx = [p \in Procs |-> InitCtx]
    /\ ops = 0
    /\ hist = InitHist
    /\ log = InitLog
    /\ kh = NoCall
    /\ \E entry \in TopEntities :
          fx = [NoFix EXCEPT !.entry = entry, !.changes = MaxChanges, !.before = entry]

\* The caller changes the content of the entity: entry[a] = value,
\* entry[a][x] = value, ...; every change is followed by a call of
\* fixUnindexableProperties before the next.
ChangeContent(path, value) ==
    /\ fx.changes > 0
    /\ fx.last # "change"
    /\ SetAt(fx.entry, path, value) # fx.entry
    /\ fx' = [fx EXCEPT !.entry = SetAt(fx.entry, path, value),
                        !.changes = fx.changes - 1,
                        !.last = "change", !.before = fx.entry]
    /\ UNCHANGED <<store, slot, pc, ctx, ops, hist, log, kh>>

\* The caller passes the entity to fixUnindexableProperties.
Sanitize ==
    /\ fx.last # "fix"
    /\ fx' = [fx EXCEPT !.entry = fixUnindexableProperties(fx.entry),
                        !.last = "fix", !.before = fx.entry]
    /\ UNCHANGED <<store, slot, pc, ctx, ops, hist, log, kh>>

\* The caller passes the entity fixUnindexableProperties returned to it again.
SanitizeAgain ==
    /\ fx.last = "fix"
    /\ fx' = [fx EXCEPT !.entry = fixUnindexableProperties(fx.entry),
                        !.last = "fix again", !.before = fx.entry]
    /\ UNCHANGED <<store, slot, pc, ctx, ops, hist, log, kh>>

NextFix ==
    \/ \E path \in ChangePaths, value \in ChangeValues : ChangeContent(path, value)
    \/ Sanitize
    \/ SanitizeAgain

SpecFix == InitFix /\ [][NextFix]_vars


\* ------------------------------------------------------------------ claims
\* What the data key holds in the committed store, or None.
Stored == StoreLookup(store, DataKey)

\* Context p's call of GetOrInsert has returned an entity.
Returned(p) == pc[p] = "idle" /\ ctx[p].lastOp = "goi" /\ ctx[p].outcome = "ok"

\* C1: callers racing on one key, each outside a transaction: exactly one
\* creation of the key commits, and the entity stored under the key is never
\* overwritten afterwards (it stays the first committed content).
C1_OneCreationNeverOverwritten ==
    /\ hist.created <= 1
    /\ (\E p \in Procs : Returned(p)) => hist.created = 1
    /\ Stored # None => hist.first = Some(Stored[1].props)

\* C2: N concurrent calls on the same key: one entity is stored, holding the
\* first committer's fields, and every call returns that key and those fields.
C2_AllReturnFirstCommitted ==
    \A p \in Procs :
        Returned(p) =>
            /\ Stored = Some(Entity(DataKey, hist.first[1]))
            /\ ctx[p].result = Some(Entity(DataKey, hist.first[1]))

\* Context p calls GetOrInsert in this step.
CallsGetOrInsert(p) == ctx'[p].calls = ctx[p].calls + 1 /\ ctx'[p].lastOp = "goi"

\* The RunInTransaction that context p's GetOrInsert started ends in this step.
GetOrInsertEnds(p) == ctx[p].top = "goi" /\ pc[p] = "commit" /\ pc'[p] # "commit"

C3_Step(p) ==
    /\ (CallsGetOrInsert(p) /\ slot[p] # None) =>
          /\ SlotKey(slot'[p]) = SlotKey(slot[p])
          /\ ctx'[p].nTxn = ctx[p].nTxn
          /\ ctx'[p].rit = 0
          /\ pc'[p] = pc[p]
          /\ \E r \in slot'[p][1].reads : r.key = DataKey
          /\ Len(slot'[p][1].mutations) = Len(slot[p][1].mutations) + (IF Falsy(Stored) THEN 1 ELSE 0)
    /\ (CallsGetOrInsert(p) /\ slot[p] = None) =>
          /\ ctx'[p].rit = 1
          /\ ctx'[p].nTxn = ctx[p].nTxn + 1
          /\ SlotKey(slot'[p]) = Some(TxnKey(p, ctx'[p].nTxn))
          /\ \E r \in slot'[p][1].reads : r.key = DataKey
    /\ GetOrInsertEnds(p) =>
          /\ ctx'[p].rit = 1
          /\ SlotKey(slot'[p]) = ctx[p].slotBefore

\* C3: called inside a transaction, GetOrInsert reads and conditionally writes
\* in that transaction and opens none; called outside, it makes one call of
\* RunInTransaction and its unit of work runs in the transaction opened; when
\* it returns, the current-transaction slot is what it was before the call.
C3_TransactionGate == [][\A p \in Procs : C3_Step(p)]_vars

\* Context 1 has called GetOrInsert inside its transaction, and context 2's
\* GetOrInsert outside any transaction has returned.
C3_Witness ==
    /\ pc[1] = "user" /\ ctx[1].lastOp = "goi" /\ ctx[1].rit = 0
    /\ Returned(2) /\ ctx[2].rit = 1

\* The sentinel writes buffered in transaction h.
MarkerWrites(h) == SelectSeq(h.mutations, LAMBDA e : e.key.kind = "viur-transactionmarker")

\* C4: in one transaction, the sentinel is written once, by the first call of
\* acquireTransactionSuccessMarker, and every call returns the same marker.
C4_MarkerWrittenOnce ==
    \A p \in Procs :
        slot[p] # None =>
            /\ ctx[p].acq = 0 => MarkerWrites(slot[p][1]) = <<>> /\ ctx[p].rets = {}
            /\ ctx[p].acq >= 1 =>
                  /\ MarkerWrites(slot[p][1]) =
                         <<Entity(MarkerKey(slot[p][1].key), {<<"creationdate", "utcnow">>})>>
                  /\ ctx[p].rets = {slot[p][1].key}

\* Three calls of acquireTransactionSuccessMarker in one transaction.
C4_Witness == \E p \in Procs : slot[p] # None /\ ctx[p].acq >= 3

\* C5: the sentinel of marker M is in the committed store exactly when the
\* transaction in which the acquisition returned M has committed.
C5_MarkerIffCommitted ==
    /\ \A a \in hist.acquired :
          (StoreLookup(store, MarkerKey(a.marker)) # None) <=> (a.txn \in hist.committed)
    /\ \A e \in store :
          e.key.kind = "viur-transactionmarker" =>
              [marker |-> e.key.id, txn |-> e.key.id] \in hist.acquired

\* A transaction that acquired a marker has committed after a conflict retry,
\* and the sentinel is stored.
C5_Witness ==
    /\ ctx[1].attempts >= 1 /\ pc[1] = "idle" /\ ctx[1].outcome = "ok"
    /\ \E a \in hist.acquired :
          /\ a.txn = TxnKey(1, ctx[1].nTxn)
          /\ a.txn \in hist.committed /\ StoreLookup(store, MarkerKey(a.marker)) # None

\* Context p calls acquireTransactionSuccessMarker in this step.
CallsAcquire(p) == ctx'[p].calls = ctx[p].calls + 1 /\ ctx'[p].lastOp = "acquire"

\* C9: outside a transaction acquireTransactionSuccessMarker fails with
\* NotInTransaction, writes no sentinel and sets no flag.
C9_NotInTransaction ==
    [][\A p \in Procs :
          (CallsAcquire(p) /\ slot[p] = None) =>
              /\ ctx'[p].outcome = "NotInTransaction"
              /\ ctx'[p].rets = ctx[p].rets
              /\ store' = store /\ slot' = slot /\ hist' = hist /\ pc' = pc]_vars

\* An acquisition outside a transaction has failed.
C9_Witness == \E p \in Procs : ctx[p].lastOp = "acquire" /\ ctx[p].outcome = "NotInTransaction"

\* endDataAccessLog(startDataAccessLog()) has just run, nothing read in
\* between, in a context that held a log.
RoundTrip == log.last.op = "end" /\ log.last.paired /\ log.last.hadLog /\ log.last.after = {}

\* C6 as stated: endLog(startLog()) returns the original log contents L, and
\* the current log afterwards is L.
C6_RoundTripReturnsOriginal ==
    RoundTrip =>
        /\ Content(log.heap, log.res) = log.last.L
        /\ Content(log.heap, log.slot) = log.last.L

\* C6 amended: after endLog(startLog()) the current log is again a set holding
\* L, startLog returned L, and endLog returned the inner scope's log, which is
\* empty.
C6_RoundTripRestores ==
    RoundTrip =>
        /\ log.slot.t = "set" /\ Content(log.heap, log.slot) = log.last.L
        /\ log.last.outer = log.last.L
        /\ log.res.t = "set" /\ Content(log.heap, log.res) = {}

\* A round trip in a context whose log held a key.
C6_Witness == RoundTrip /\ log.last.L # {}

C8_EndClears ==
    log.last.op = "end0" =>
        /\ log.slot = VNone
        /\ Content(log.heap, log.res) = log.last.before
        /\ log.res.t # "set" => log.res = VNone /\ log.last.before = {}

\* A log ended without outer set, and another key read afterwards.
C8_Witness ==
    /\ log.last.op = "end0" /\ log.res.t = "set"
    /\ log.last.before # {}
    /\ log.last.after \ log.last.before # {}

\* The kind of the Key given is neither targetKind nor an allowed kind.
KindMismatch == kh.inKey.key[1].kind \notin ({kh.targetKind} \cup kh.allowed)

\* C10: a Key of a foreign kind is refused with KindMismatch, or rewritten to
\* targetKind (same id and parent) when adjust_kind is set; a Key of an
\* accepted kind keeps its kind; so every key returned has an accepted kind.
C10_KindConstraint ==
    kh.done =>
        /\ (kh.inKey.t = "key" /\ KindMismatch /\ ~kh.adjust_kind) =>
              kh.out = Raises("KindMismatch")
        /\ (kh.inKey.t = "key" /\ KindMismatch /\ kh.adjust_kind) =>
              /\ kh.out.error = ""
              /\ kh.out.key[1].kind = kh.targetKind
              /\ kh.out.key[1].id = kh.inKey.key[1].id
              /\ kh.out.key[1].parent = kh.inKey.key[1].parent
        /\ (kh.inKey.t = "key" /\ ~KindMismatch) =>
              kh.out = Returns(kh.inKey.key[1])
        /\ kh.out.error = "" => kh.out.key[1].kind \in ({kh.targetKind} \cup kh.allowed)

\* A Key with a parent and of a foreign kind, given with adjust_kind set, has
\* been resolved to a key of targetKind.
C10_Witness ==
    /\ kh.done /\ kh.inKey.t = "key" /\ KindMismatch /\ kh.adjust_kind
    /\ kh.inKey.key[1].parent # None /\ kh.allowed # {}
    /\ kh.out.error = "" /\ kh.out.key[1].kind = kh.targetKind

\* The key and all its ancestors are of the current application, as built by
\* Key(kind, id_or_name, parent=...) in this process.
RECURSIVE BuiltHere(_)
BuiltHere(k) ==
    /\ k.app = CurrentApp
    /\ k.parent # None => BuiltHere(k.parent[1])

\* The plain id of a key: its int, its decimal string, or its name.
PlainIds(k) ==
    IF k.id.t = "int" THEN {IntArg(k.id.n), StrArg(IntToStr(k.id.n))}
    ELSE {StrArg(k.id.s)}

\* The call resolved a Key built here; the same arguments with the legacy
\* token of that key (of any application) give the same outcome.
TokenAgrees ==
    \A app \in Apps :
        keyHelper(StrArg(to_legacy_urlsafe([kh.inKey.key[1] EXCEPT !.app = app])),
                  kh.targetKind, kh.allowed, kh.adjust_kind) = kh.out

\* The same arguments with the plain id of the key give the same outcome.
PlainIdAgrees ==
    \A arg \in PlainIds(kh.inKey.key[1]) :
        keyHelper(arg, kh.targetKind, kh.allowed, kh.adjust_kind) = kh.out

\* A call with a Key built here, and one with a parentless Key of targetKind.
StructuredCall == kh.done /\ kh.inKey.t = "key" /\ BuiltHere(kh.inKey.key[1])
ParentlessCall ==
    StructuredCall /\ kh.inKey.key[1].parent = None /\ kh.inKey.key[1].kind = kh.targetKind

PlainStringCall == kh.done /\ kh.inKey.t = "str" /\ from_legacy_urlsafe(kh.inKey.str) = None

\* C12: a string that is no legacy token resolves, without error, to a
\* parentless key of targetKind: an int id, the value of the string, when it is
\* all digits ("12345" gives 12345), the string as name otherwise.
C12_PlainStringFallback ==
    PlainStringCall =>
        /\ kh.out.error = ""
        /\ kh.out.key[1].kind = kh.targetKind
        /\ kh.out.key[1].parent = None
        /\ kh.out.key[1].app = CurrentApp
        /\ isdecimal(kh.inKey.str) => kh.out.key[1].id = IntId(DecimalValue(kh.inKey.str))
        /\ kh.inKey.str = <<"1", "2", "3", "4", "5">> => kh.out.key[1].id = IntId(12345)
        /\ ~isdigit(kh.inKey.str) => kh.out.key[1].id = NameId(kh.inKey.str)

\* The same for the strings str.isdigit() and int() agree on: those with no
\* digit that is not a decimal.
C12_DecimalStringFallback ==
    (PlainStringCall /\ (isdigit(kh.inKey.str) => isdecimal(kh.inKey.str))) =>
        /\ kh.out.error = ""
        /\ kh.out.key[1].kind = kh.targetKind
        /\ kh.out.key[1].parent = None
        /\ kh.out.key[1].app = CurrentApp
        /\ isdecimal(kh.inKey.str) => kh.out.key[1].id = IntId(DecimalValue(kh.inKey.str))
        /\ ~isdigit(kh.inKey.str) => kh.out.key[1].id = NameId(kh.inKey.str)

\* "12345" has been resolved against Person to Key("Person", 12345).
C12_Witness ==
    /\ PlainStringCall /\ kh.inKey.str = <<"1", "2", "3", "4", "5">>
    /\ kh.targetKind = "Person"
    /\ kh.out = Returns([kind |-> "Person", id |-> IntId(12345), parent |-> None, app |-> CurrentApp])

\* A string of a digit that is no decimal has been given and int raised.
C12_ValueErrorSurfaces ==
    /\ PlainStringCall /\ kh.inKey.str = <<SuperscriptTwo>>
    /\ kh.out = Raises("ValueError")

\* fixUnindexableProperties has returned: once, or again on its own result.
Sanitized == fx.last \in {"fix", "fix again"}

\* C13: fixUnindexableProperties is idempotent: passing its result to it again
\* leaves every property value, key and exclude set, at every nesting level,
\* as it was.
C13_Idempotent ==
    /\ fx.last = "fix again" => fx.entry = fx.before
    /\ Sanitized => fixUnindexableProperties(fx.entry) = fx.entry

\* An entity with a doubly nested long string and a long top-level string has
\* been sanitized twice.
C13_Witness ==
    /\ fx.last = "fix again"
    /\ DOMAIN fx.entry.props = {"a", "b"}
    /\ fx.entry.exclude_from_indexes = {"b"}
    /\ fx.entry.props["a"].t = "Entity"
    /\ "x" \in DOMAIN fx.entry.props["a"].props
    /\ fx.entry.props["a"].props["x"].t = "Entity"
    /\ fx.entry.props["a"].props["x"].exclude_from_indexes = {"z"}

LongFields(v) ==
    {f \in DOMAIN v.props : v.props[f].t \in {"str", "bytes"} /\ v.props[f].len >= 500}

\* C15: a property whose value was a mapping with a string of at least 500 is
\* an Entity after the call, with the same content, that excludes the inner
\* field; the outer name is not excluded, and a nested Entity keeps its key.
C15_NestedRecursion ==
    Sanitized =>
        \A k \in DOMAIN fx.before.props :
            LET v == fx.before.props[k]
                w == fx.entry.props[k]
            IN  (IsDict(v) /\ LongFields(v) # {}) =>
                    /\ w.t = "Entity"
                    /\ DOMAIN w.props = DOMAIN v.props
                    /\ \A f \in LongFields(v) :
                          w.props[f] = v.props[f] /\ f \in w.exclude_from_indexes
                    /\ k \notin fx.entry.exclude_from_indexes
                    /\ v.t = "Entity" => w.key = v.key
                    /\ v.t = "dict" => w.key = None

\* An entity with a nested Entity that has a key, a long string and no
\* exclusions has been sanitized.
C15_Witness ==
    /\ fx.last = "fix"
    /\ "a" \in DOMAIN fx.before.props
    /\ fx.before.props["a"].t = "Entity"
    /\ fx.before.props["a"].key = FixKey
    /\ fx.before.props["a"].exclude_from_indexes = {}
    /\ LongFields(fx.before.props["a"]) = {"x"}
    /\ fx.entry.props["a"].key = FixKey
    /\ fx.entry.props["a"].exclude_from_indexes = {"x"}
    /\ fx.entry.exclude_from_indexes = {}

\* The exclude set of the entity is the one its content gives: the names of
\* its values, mappings apart, that hold a string of at least 500.
ExcludeOfContent(e) ==
    {k \in DOMAIN e.props : ~IsDict(e.props[k]) /\ hasUnindexableProperty(e.props[k])}

\* Every Entity in the value, itself included, has the exclude set of its content.
RECURSIVE RecomputedEverywhere(_)
RecomputedEverywhere(v) ==
    /\ v.t = "Entity" => v.exclude_from_indexes = ExcludeOfContent(v)
    /\ IsDict(v) => \A k \in DOMAIN v.props : RecomputedEverywhere(v.props[k])

\* C18: after changes of content, each followed by a call, the exclude set is
\* the one of the current content, at the top level and in every nested Entity.
C18_ExcludeRecomputed == Sanitized => RecomputedEverywhere(fx.entry)

\* The same at the top level only, whatever the set was before.
C18_TopLevelRecomputed ==
    Sanitized => fx.entry.exclude_from_indexes = ExcludeOfContent(fx.entry)

\* A nested Entity's long string was replaced by a short one, the entity has
\* been sanitized, and the nested Entity excludes the field as before.
C18_StaleNestedExclude ==
    /\ fx.last = "fix" /\ fx.changes < MaxChanges
    /\ "a" \in DOMAIN fx.entry.props
    /\ fx.entry.props["a"].t = "Entity"
    /\ "x" \in DOMAIN fx.entry.props["a"].props
    /\ fx.entry.props["a"].props["x"] = Str(499)
    /\ "x" \in fx.entry.props["a"].exclude_from_indexes

\* The step is the successful commit of a GetOrInsert of p whose Get found
\* the entity that is stored.
CommitsOnExisting(p) ==
    /\ pc[p] = "commit" /\ pc'[p] = "idle"
    /\ ctx[p].top = "goi" /\ ctx'[p].outcome = "ok"
    /\ StoreLookup(store, DataKey) # None

\* No Put was issued, the store is as it was, the stored entity is returned.
LeavesExisting(p) ==
    /\ slot[p][1].mutations = <<>>
    /\ store' = store
    /\ ctx'[p].result = StoreLookup(store, DataKey)

\* C16: GetOrInsert on a key whose entity exists issues no Put, leaves the
\* store unchanged and returns the stored entity, whatever fields are given.
C16_Step == \A p \in Procs : CommitsOnExisting(p) => LeavesExisting(p)
C16_ExistingUntouched == [][C16_Step]_vars

\* The same for a stored entity that has at least one property.
C16_StepNonEmpty ==
    \A p \in Procs :
        (CommitsOnExisting(p) /\ StoreLookup(store, DataKey)[1].props # {}) =>
            LeavesExisting(p)
C16_NonEmptyExistingUntouched == [][C16_StepNonEmpty]_vars

\* An entity stored without properties has been replaced by one with fields.
C16_ExistingOverwritten ==
    /\ hist.created = 2
    /\ hist.first = Some({})
    /\ StoreLookup(store, DataKey) # None
    /\ StoreLookup(store, DataKey)[1].props # {}

\* C17: every key keyHelper returns is of the current application, and so are
\* all its ancestors, whatever form the input has.
C17_CurrentAppEverywhere ==
    (kh.done /\ kh.out.error = "") => BuiltHere(kh.out.key[1])

\* The same for the keys returned for a string or an int.
C17_DecodedKeysNormalized ==
    (kh.done /\ kh.out.error = "" /\ kh.inKey.t # "key") => BuiltHere(kh.out.key[1])

\* A structured Key of the target kind with a parent of another application
\* has been returned as it was given.
C17_ForeignKeyReturned ==
    /\ kh.done /\ kh.inKey.t = "key"
    /\ kh.inKey.key[1].kind = kh.targetKind
    /\ kh.inKey.key[1].app = CurrentApp
    /\ kh.inKey.key[1].parent # None
    /\ kh.inKey.key[1].parent[1].app # CurrentApp
    /\ kh.out = Returns(kh.inKey.key[1])

\* The call was the paired endDataAccessLog of a scope inside which the caller
\* only read and ran properly nested scopes.
ScopeEnded == log.last.op \in {"end", "end0"} /\ log.last.scope.proper

\* C19: when a properly nested scope ends, endDataAccessLog returns exactly the
\* keys read inside it, the set startDataAccessLog returned still holds what
\* it held, and, where a log was active at its start, the current log is that
\* log united with the keys read inside (and those read since the scope ended).
C19_NestedScopes ==
    ScopeEnded =>
        /\ log.res.t = "set" /\ Content(log.heap, log.res) = log.last.scope.reads
        /\ Content(log.heap, log.last.old) = log.last.scope.L
        /\ log.last.scope.hadLog =>
              /\ log.slot.t = "set"
              /\ Content(log.heap, log.slot) =
                    log.last.scope.L \cup log.last.scope.reads \cup log.last.after

\* A scope nested in another that is still open has ended; it began with a
\* key in the log and another key was read inside it.
C19_Witness ==
    /\ ScopeEnded /\ log.last.scope.hadLog
    /\ log.last.scope.L # {}
    /\ log.last.scope.reads \ log.last.scope.L # {}
    /\ log.scopes # <<>> /\ log.scopes[Len(log.scopes)].proper

\* C20: a paired startDataAccessLog / endDataAccessLog in a context without an
\* active log, never set or cleared, leaves no log active.
C20_PairedScopeLeavesNoLog ==
    (ScopeEnded /\ ~log.last.scope.hadLog) => log.slot.t # "set"

\* The same in a context whose log was cleared by endDataAccessLog().
C20_ClearedContextLeavesNoLog ==
    (ScopeEnded /\ log.last.scope.slotAt = "none") => log.slot = VNone

\* A paired scope in a context that never had a log has ended, and a key
\* read afterwards is in the log that is active now.
C20_LogLeftActive ==
    /\ ScopeEnded /\ log.last.scope.slotAt = "unset"
    /\ log.slot.t = "set"
    /\ log.last.after # {}
    /\ log.last.after \subseteq Content(log.heap, log.slot)

====
